---- MODULE Spec2Model ----
(***************************************************************************)
(* A model of the ClueBoardGameFHE contract (src/unnamed/part_000): batch  *)
(* lifecycle, bounded aggregation of encrypted guesses, per-address rate   *)
(* limiting and the request -> callback disclosure pipeline.               *)
(*                                                                         *)
(* Every external function is one action.  A call that reverts leaves the  *)
(* whole state unchanged and emits nothing; the error it reverts with is   *)
(* given by the function's outcome operator.  Of the events, the two kinds *)
(* of the disclosure pipeline are logged per requestId.  Ciphertext        *)
(* handles are symbolic terms, so that two handles are equal exactly when  *)
(* they were computed by the same operations on the same operands (the FHE *)
(* executor derives a result handle by hashing the operation and its       *)
(* operands).                                                              *)
(***************************************************************************)
EXTENDS Integers, Sequences, FiniteSets, TLC

\* ---------------------------------------------------------------- bounds
NumPlayers == 1
MaxBatches == 1
MaxRequests == 2
MaxTicks == 1

\* ------------------------------------------------------ program constants
MAX_BATCH_SIZE == 10
InitialCooldown == 30
InitialModelVersion == 1
Deployer == 0

\* ------------------------------------------------------------ input sets
\* A 32-bit word is <<high half, low half>>, so that the arithmetic modulo
\* 2^32 is exact.
Half == 2 ^ 16
Word(n) == <<0, n>>
MaxWord == <<Half - 1, Half - 1>>
AddWord(x, y) ==
    <<(x[1] + y[1] + ((x[2] + y[2]) \div Half)) % Half, (x[2] + y[2]) % Half>>
TickSeconds == InitialCooldown
StartTime == 1000
Addresses == 0 .. NumPlayers
\* who delivers the oracle's replies: the owner or a player
Relayers == {Deployer, NumPlayers}
BatchIds == 0 .. MaxBatches
RequestIds == 0 .. MaxRequests
Cooldowns == {0, InitialCooldown}
GuessA == <<Word(1), Word(2), Word(3)>>
GuessB == <<MaxWord, Word(2), Word(5)>>
Guesses == {GuessA, GuessB}

VARIABLES
    owner, paused, cooldownSeconds, currentBatchId, modelVersion,
    providers, lastSubmissionAt, lastRequestAt, batches,
    decryptionContexts, hasSubmitted, hasRequested,
    now,               \* block.timestamp
    counterRequest,    \* the FHE library's request counter
    requestedHandles,  \* the FHE library's record of each request
    requestedLog,      \* the DecryptionRequested events, per requestId
    settledLog,        \* the DecryptionComplete / Accusation events, per requestId
    contributions,     \* history: the accepted guesses per batch, in order
    submitters         \* history: who made them

contractVars == <<owner, paused, cooldownSeconds, currentBatchId, modelVersion,
                  providers, lastSubmissionAt, lastRequestAt, batches,
                  decryptionContexts, hasSubmitted, hasRequested,
                  counterRequest, requestedHandles, requestedLog, settledLog, contributions,
                  submitters>>
vars == <<contractVars, now>>

\* ------------------------------------------------------- FHE primitives
\* A handle is <<>> (uninitialized) or a term <<op, left, right>>.
Uninit == <<>>
isInitialized(x) == x # Uninit
asEuint32(v) == <<"trivial", <<Word(v)>>, <<"euint32">> >>
asEbool(v) == <<"trivial", <<IF v THEN Word(1) ELSE Word(0)>>, <<"ebool">> >>
\* the ciphertext an address passes in for plaintext v
InputHandle(field, v) == <<"input", <<v>>, <<field>> >>
\* FHE.add, FHE.eq treat an uninitialized operand as an encrypted zero
ZeroIfUninit(x) == IF isInitialized(x) THEN x ELSE asEuint32(0)
FHE_add(a, b) == <<"add", ZeroIfUninit(a), ZeroIfUninit(b)>>
FHE_eq(a, b) == <<"eq", ZeroIfUninit(a), ZeroIfUninit(b)>>
FHE_and(a, b) == <<"and", a, b>>

\* the plaintext behind a handle (what the oracle's decryption yields)
RECURSIVE Plain(_)
Plain(h) ==
    IF h[1] \in {"trivial", "input"} THEN h[2][1]
    ELSE IF h[1] = "add" THEN AddWord(Plain(h[2]), Plain(h[3]))
    ELSE IF h[1] = "eq" THEN (IF Plain(h[2]) = Plain(h[3]) THEN Word(1) ELSE Word(0))
    ELSE (IF Plain(h[2]) = Word(1) /\ Plain(h[3]) = Word(1) THEN Word(1) ELSE Word(0))

\* the abi-encoded cleartexts of a list of handles, one word per handle
Decrypt(cts) ==
    IF Len(cts) = 1 THEN <<Plain(cts[1])>>
    ELSE IF Len(cts) = 3 THEN <<Plain(cts[1]), Plain(cts[2]), Plain(cts[3])>>
    ELSE <<>>

\* ----------------------------------------------------- internal helpers
ThisAddress == "ClueBoardGameFHE"
ZeroHash == <<>>
\* (mutant) the digest leaves the handles out
hashDomainOnly(cts) == <<<<>>, ThisAddress>>
hashCiphertexts(cts) == <<cts, ThisAddress>>

initIfNeeded(x) == IF isInitialized(x) THEN x ELSE asEuint32(0)

AllInitialized(b) ==
    /\ isInitialized(batches[b].encryptedWeapon)
    /\ isInitialized(batches[b].encryptedRoom)
    /\ isInitialized(batches[b].encryptedSuspect)

\* _rebuildIsCorrect: the three _requireInitialized checks, then a constant
rebuildIsCorrect(b) == asEbool(FALSE)

rebuildBatchSolution(b) ==
    <<batches[b].encryptedWeapon, batches[b].encryptedRoom, batches[b].encryptedSuspect>>

\* ------------------------------------------------------------ the state
EmptyBatch ==
    [isOpen |-> FALSE, submissionCount |-> 0, encryptedWeapon |-> Uninit,
     encryptedRoom |-> Uninit, encryptedSuspect |-> Uninit]

NoContext ==
    [batchId |-> 0, modelVersion |-> 0, stateHash |-> ZeroHash, processed |-> FALSE]

NoRequest ==
    [cts |-> <<>>, selector |-> "none", requester |-> 0, submissionCount |-> 0]

\* the plaintext sum of the first k accepted guesses
RECURSIVE SumFirst(_, _)
SumFirst(seq, k) ==
    IF k = 0 THEN <<Word(0), Word(0), Word(0)>>
    ELSE LET s == SumFirst(seq, k - 1)
             g == seq[k]
         IN <<AddWord(s[1], g[1]), AddWord(s[2], g[2]), AddWord(s[3], g[3])>>

InitOver(addrs, batchIds) ==
    /\ owner = Deployer
    /\ paused = FALSE
    /\ cooldownSeconds = InitialCooldown
    /\ currentBatchId = 0
    /\ modelVersion = InitialModelVersion
    /\ providers = [a \in addrs |-> FALSE]
    /\ lastSubmissionAt = [a \in addrs |-> 0]
    /\ lastRequestAt = [a \in addrs |-> 0]
    /\ batches = [b \in batchIds |-> EmptyBatch]
    /\ decryptionContexts = [r \in RequestIds |-> NoContext]
    /\ hasSubmitted = [b \in batchIds |-> [a \in addrs |-> FALSE]]
    /\ hasRequested = [b \in batchIds |-> [a \in addrs |-> FALSE]]
    /\ now = StartTime
    /\ counterRequest = 0
    /\ requestedHandles = [r \in RequestIds |-> NoRequest]
    /\ requestedLog = [r \in RequestIds |-> <<>>]
    /\ settledLog = [r \in RequestIds |-> <<>>]
    /\ contributions = [b \in batchIds |-> <<>>]
    /\ submitters = [b \in batchIds |-> {}]

Init == InitOver(Addresses, BatchIds)

\* a call that reverts
Reverted == UNCHANGED vars
\* ------------------------------------------------------ admin functions
\* (mutant) any caller passes
onlyOwnerAnyone(c) == TRUE
onlyOwner(c) == c = owner

addProvider(c, p) ==
    IF ~onlyOwner(c) THEN Reverted
    ELSE /\ providers' = [providers EXCEPT ![p] = TRUE]
         /\ UNCHANGED <<owner, paused, cooldownSeconds, currentBatchId, modelVersion,
                        lastSubmissionAt, lastRequestAt, batches, decryptionContexts,
                        hasSubmitted, hasRequested, counterRequest, requestedHandles,
                        requestedLog, settledLog, contributions, submitters, now>>

removeProvider(c, p) ==
    IF ~onlyOwner(c) THEN Reverted
    ELSE /\ providers' = [providers EXCEPT ![p] = FALSE]
         /\ UNCHANGED <<owner, paused, cooldownSeconds, currentBatchId, modelVersion,
                        lastSubmissionAt, lastRequestAt, batches, decryptionContexts,
                        hasSubmitted, hasRequested, counterRequest, requestedHandles,
                        requestedLog, settledLog, contributions, submitters, now>>

pause(c) ==
    IF ~onlyOwner(c) THEN Reverted
    ELSE /\ paused' = TRUE
         /\ UNCHANGED <<owner, cooldownSeconds, currentBatchId, modelVersion, providers,
                        lastSubmissionAt, lastRequestAt, batches, decryptionContexts,
                        hasSubmitted, hasRequested, counterRequest, requestedHandles,
                        requestedLog, settledLog, contributions, submitters, now>>

unpause(c) ==
    IF ~onlyOwner(c) THEN Reverted
    ELSE /\ paused' = FALSE
         /\ UNCHANGED <<owner, cooldownSeconds, currentBatchId, modelVersion, providers,
                        lastSubmissionAt, lastRequestAt, batches, decryptionContexts,
                        hasSubmitted, hasRequested, counterRequest, requestedHandles,
                        requestedLog, settledLog, contributions, submitters, now>>

setCooldown(c, newCooldown) ==
    IF ~onlyOwner(c) THEN Reverted
    ELSE /\ cooldownSeconds' = newCooldown
         /\ UNCHANGED <<owner, paused, currentBatchId, modelVersion, providers,
                        lastSubmissionAt, lastRequestAt, batches, decryptionContexts,
                        hasSubmitted, hasRequested, counterRequest, requestedHandles,
                        requestedLog, settledLog, contributions, submitters, now>>

\* ----------------------------------------------------- batch management
\* (mutant) the batch is opened under the id before the increment
openBatchStaleId(c) ==
    IF ~onlyOwner(c) THEN Reverted
    ELSE /\ currentBatchId' = currentBatchId + 1
         /\ batches' = [batches EXCEPT ![currentBatchId].isOpen = TRUE]
         /\ UNCHANGED <<owner, paused, cooldownSeconds, modelVersion, providers,
                        lastSubmissionAt, lastRequestAt, decryptionContexts,
                        hasSubmitted, hasRequested, counterRequest, requestedHandles,
                        requestedLog, settledLog, contributions, submitters, now>>
openBatch(c) ==
    IF ~onlyOwner(c) THEN Reverted
    ELSE /\ currentBatchId' = currentBatchId + 1
         /\ batches' = [batches EXCEPT ![currentBatchId + 1].isOpen = TRUE]
         /\ UNCHANGED <<owner, paused, cooldownSeconds, modelVersion, providers,
                        lastSubmissionAt, lastRequestAt, decryptionContexts,
                        hasSubmitted, hasRequested, counterRequest, requestedHandles,
                        requestedLog, settledLog, contributions, submitters, now>>

\* (mutant) closing deletes the batch record
closeBatchDeletes(c, b) ==
    IF ~onlyOwner(c) THEN Reverted
    ELSE IF ~batches[b].isOpen THEN Reverted
    ELSE /\ batches' = [batches EXCEPT ![b] = EmptyBatch]
         /\ UNCHANGED <<owner, paused, cooldownSeconds, currentBatchId, modelVersion,
                        providers, lastSubmissionAt, lastRequestAt, decryptionContexts,
                        hasSubmitted, hasRequested, counterRequest, requestedHandles,
                        requestedLog, settledLog, contributions, submitters, now>>
closeBatch(c, b) ==
    IF ~onlyOwner(c) THEN Reverted
    ELSE IF ~batches[b].isOpen THEN Reverted
    ELSE /\ batches' = [batches EXCEPT ![b].isOpen = FALSE]
         /\ UNCHANGED <<owner, paused, cooldownSeconds, currentBatchId, modelVersion,
                        providers, lastSubmissionAt, lastRequestAt, decryptionContexts,
                        hasSubmitted, hasRequested, counterRequest, requestedHandles,
                        requestedLog, settledLog, contributions, submitters, now>>

\* ------------------------------------------------------- player actions
\* (mutant) the pause flag is not consulted
whenNotPausedIgnored == TRUE
whenNotPaused == ~paused

\* (mutant) the cooldown comparison is not strict
checkCooldownNotStrict(c, lastAction) == ~(now <= lastAction[c] + cooldownSeconds)
checkCooldown(c, lastAction) == ~(now < lastAction[c] + cooldownSeconds)

\* (mutant) the room and suspect inputs are added to each other's aggregate
AggregateSwapped(batch, g) ==
    [batch EXCEPT
        !.encryptedWeapon = FHE_add(batch.encryptedWeapon, InputHandle("weapon", g[1])),
        !.encryptedRoom = FHE_add(batch.encryptedRoom, InputHandle("suspect", g[3])),
        !.encryptedSuspect = FHE_add(batch.encryptedSuspect, InputHandle("room", g[2])),
        !.submissionCount = batch.submissionCount + 1]

\* (mutant) the first submission only seeds the accumulators with zero
AggregateSeedOnly(batch, g) ==
    IF ~isInitialized(batch.encryptedWeapon)
    THEN [batch EXCEPT
             !.encryptedWeapon = asEuint32(0),
             !.encryptedRoom = asEuint32(0),
             !.encryptedSuspect = asEuint32(0),
             !.submissionCount = batch.submissionCount + 1]
    ELSE [batch EXCEPT
             !.encryptedWeapon = FHE_add(batch.encryptedWeapon, InputHandle("weapon", g[1])),
             !.encryptedRoom = FHE_add(batch.encryptedRoom, InputHandle("room", g[2])),
             !.encryptedSuspect = FHE_add(batch.encryptedSuspect, InputHandle("suspect", g[3])),
             !.submissionCount = batch.submissionCount + 1]

\* the batch after FHE.add of the three inputs and submissionCount++
Aggregate(batch, g) ==
    [batch EXCEPT
        !.encryptedWeapon = FHE_add(batch.encryptedWeapon, InputHandle("weapon", g[1])),
        !.encryptedRoom = FHE_add(batch.encryptedRoom, InputHandle("room", g[2])),
        !.encryptedSuspect = FHE_add(batch.encryptedSuspect, InputHandle("suspect", g[3])),
        !.submissionCount = batch.submissionCount + 1]

\* (mutant) the size check is off by one
submitOutcomeOffByOne(c, b) ==
    IF ~whenNotPaused THEN "Paused"
    ELSE IF ~checkCooldown(c, lastSubmissionAt) THEN "RateLimited"
    ELSE IF ~batches[b].isOpen THEN "BatchClosed"
    ELSE IF batches[b].submissionCount > MAX_BATCH_SIZE THEN "BatchFull"
    ELSE IF hasSubmitted[b][c] THEN "InvalidState"
    ELSE "ok"

\* (mutant) no dedup check
submitOutcomeNoDedup(c, b) ==
    IF ~whenNotPaused THEN "Paused"
    ELSE IF ~checkCooldown(c, lastSubmissionAt) THEN "RateLimited"
    ELSE IF ~batches[b].isOpen THEN "BatchClosed"
    ELSE IF batches[b].submissionCount >= MAX_BATCH_SIZE THEN "BatchFull"
    ELSE "ok"

\* (mutant) no check that the batch is open
submitOutcomeNoOpenCheck(c, b) ==
    IF ~whenNotPaused THEN "Paused"
    ELSE IF ~checkCooldown(c, lastSubmissionAt) THEN "RateLimited"
    ELSE IF batches[b].submissionCount >= MAX_BATCH_SIZE THEN "BatchFull"
    ELSE IF hasSubmitted[b][c] THEN "InvalidState"
    ELSE "ok"

\* (mutant) the dedup check comes before the batch checks
submitOutcomeDedupFirst(c, b) ==
    IF ~whenNotPaused THEN "Paused"
    ELSE IF ~checkCooldown(c, lastSubmissionAt) THEN "RateLimited"
    ELSE IF hasSubmitted[b][c] THEN "InvalidState"
    ELSE IF ~batches[b].isOpen THEN "BatchClosed"
    ELSE IF batches[b].submissionCount >= MAX_BATCH_SIZE THEN "BatchFull"
    ELSE "ok"
submitOutcome(c, b) ==
    IF ~whenNotPaused THEN "Paused"
    ELSE IF ~checkCooldown(c, lastSubmissionAt) THEN "RateLimited"
    ELSE IF ~batches[b].isOpen THEN "BatchClosed"
    ELSE IF batches[b].submissionCount >= MAX_BATCH_SIZE THEN "BatchFull"
    ELSE IF hasSubmitted[b][c] THEN "InvalidState"
    ELSE "ok"

\* (mutant) the ledger is written before the body's checks, and kept when
\* one of them rejects the call
submitEncryptedGuessLedgerFirst(c, b, g) ==
    IF submitOutcome(c, b) \in {"Paused", "RateLimited"}
    THEN Reverted
    ELSE IF submitOutcome(c, b) # "ok"
    THEN /\ lastSubmissionAt' = [lastSubmissionAt EXCEPT ![c] = now]
         /\ UNCHANGED <<owner, paused, cooldownSeconds, currentBatchId, modelVersion,
                        providers, lastRequestAt, batches, decryptionContexts,
                        hasSubmitted, hasRequested, counterRequest, requestedHandles,
                        requestedLog, settledLog, contributions, submitters, now>>
    ELSE /\ batches' = [batches EXCEPT ![b] = Aggregate(batches[b], g)]
         /\ hasSubmitted' = [hasSubmitted EXCEPT ![b][c] = TRUE]
         /\ lastSubmissionAt' = [lastSubmissionAt EXCEPT ![c] = now]
         /\ contributions' = [contributions EXCEPT ![b] = Append(@, g)]
         /\ submitters' = [submitters EXCEPT ![b] = @ \cup {c}]
         /\ UNCHANGED <<owner, paused, cooldownSeconds, currentBatchId, modelVersion,
                        providers, lastRequestAt, decryptionContexts, hasRequested,
                        counterRequest, requestedHandles, requestedLog, settledLog, now>>
submitEncryptedGuess(c, b, g) ==
    IF submitOutcome(c, b) # "ok"
    THEN Reverted
    ELSE /\ batches' = [batches EXCEPT ![b] = Aggregate(batches[b], g)]
         /\ hasSubmitted' = [hasSubmitted EXCEPT ![b][c] = TRUE]
         /\ lastSubmissionAt' = [lastSubmissionAt EXCEPT ![c] = now]
         /\ contributions' = [contributions EXCEPT ![b] = Append(@, g)]
         /\ submitters' = [submitters EXCEPT ![b] = @ \cup {c}]
         /\ UNCHANGED <<owner, paused, cooldownSeconds, currentBatchId, modelVersion,
                        providers, lastRequestAt, decryptionContexts, hasRequested,
                        counterRequest, requestedHandles, requestedLog, settledLog, now>>

\* the encrypted comparison of a guess with the batch's aggregates
AccusationResult(batch, g) ==
    FHE_and(FHE_and(FHE_eq(batch.encryptedWeapon, InputHandle("weapon", g[1])),
                    FHE_eq(batch.encryptedRoom, InputHandle("room", g[2]))),
            FHE_eq(batch.encryptedSuspect, InputHandle("suspect", g[3])))

\* (mutant) every request is filed under id 0 while the counter still advances
requestDisclosureReusedId(b, c, cts, selector) ==
    /\ counterRequest < MaxRequests
    /\ requestedHandles' = [requestedHandles EXCEPT ![0] =
           [cts |-> cts, selector |-> selector, requester |-> c,
            submissionCount |-> batches[b].submissionCount]]
    /\ counterRequest' = counterRequest + 1
    /\ decryptionContexts' = [decryptionContexts EXCEPT ![0] =
           [batchId |-> b, modelVersion |-> modelVersion,
            stateHash |-> hashCiphertexts(cts), processed |-> FALSE]]
    /\ requestedLog' = [requestedLog EXCEPT ![0] =
           <<"DecryptionRequested", 0, b, hashCiphertexts(cts)>>]

\* FHE.requestDecryption, then the new DecryptionContext
requestDisclosure(b, c, cts, selector) ==
    /\ counterRequest < MaxRequests
    /\ requestedHandles' = [requestedHandles EXCEPT ![counterRequest] =
           [cts |-> cts, selector |-> selector, requester |-> c,
            submissionCount |-> batches[b].submissionCount]]
    /\ counterRequest' = counterRequest + 1
    /\ decryptionContexts' = [decryptionContexts EXCEPT ![counterRequest] =
           [batchId |-> b, modelVersion |-> modelVersion,
            stateHash |-> hashCiphertexts(cts), processed |-> FALSE]]
    /\ requestedLog' = [requestedLog EXCEPT ![counterRequest] =
           <<"DecryptionRequested", counterRequest, b, hashCiphertexts(cts)>>]

\* (mutant) an accusation does not look at the submission dedup flag
accusationOutcomeNoDedup(c, b) ==
    IF ~whenNotPaused THEN "Paused"
    ELSE IF ~checkCooldown(c, lastSubmissionAt) THEN "RateLimited"
    ELSE IF ~batches[b].isOpen THEN "BatchClosed"
    ELSE "ok"
\* (mutant) an accusation is refused on a full batch, like a submission
accusationOutcomeWithFullCheck(c, b) ==
    IF ~whenNotPaused THEN "Paused"
    ELSE IF ~checkCooldown(c, lastSubmissionAt) THEN "RateLimited"
    ELSE IF ~batches[b].isOpen THEN "BatchClosed"
    ELSE IF batches[b].submissionCount >= MAX_BATCH_SIZE THEN "BatchFull"
    ELSE IF hasSubmitted[b][c] THEN "InvalidState"
    ELSE "ok"
accusationOutcome(c, b) ==
    IF ~whenNotPaused THEN "Paused"
    ELSE IF ~checkCooldown(c, lastSubmissionAt) THEN "RateLimited"
    ELSE IF ~batches[b].isOpen THEN "BatchClosed"
    ELSE IF hasSubmitted[b][c] THEN "InvalidState"
    ELSE "ok"

makeAccusation(c, b, g) ==
    IF accusationOutcome(c, b) # "ok"
    THEN Reverted
    ELSE /\ requestDisclosure(b, c, <<AccusationResult(batches[b], g)>>,
                              "handleAccusationCallback")
         /\ hasSubmitted' = [hasSubmitted EXCEPT ![b][c] = TRUE]
         /\ lastSubmissionAt' = [lastSubmissionAt EXCEPT ![c] = now]
         /\ UNCHANGED <<owner, paused, cooldownSeconds, currentBatchId, modelVersion,
                        providers, lastRequestAt, batches, hasRequested,
                        settledLog, contributions, submitters, now>>

\* (mutant) a solution is disclosed only while the batch is open
requestOutcomeOpenOnly(c, b) ==
    IF ~whenNotPaused THEN "Paused"
    ELSE IF ~checkCooldown(c, lastRequestAt) THEN "RateLimited"
    ELSE IF ~batches[b].isOpen THEN "BatchClosed"
    ELSE IF batches[b].submissionCount = 0 THEN "InvalidBatch"
    ELSE IF hasRequested[b][c] THEN "InvalidState"
    ELSE "ok"
\* (mutant) requests are rate-limited on the submission ledger
requestOutcomeSharedLedger(c, b) ==
    IF ~whenNotPaused THEN "Paused"
    ELSE IF ~checkCooldown(c, lastSubmissionAt) THEN "RateLimited"
    ELSE IF batches[b].submissionCount = 0 THEN "InvalidBatch"
    ELSE IF hasRequested[b][c] THEN "InvalidState"
    ELSE "ok"
\* (mutant) requests share the submission dedup flag
requestOutcomeSharedDedup(c, b) ==
    IF ~whenNotPaused THEN "Paused"
    ELSE IF ~checkCooldown(c, lastRequestAt) THEN "RateLimited"
    ELSE IF batches[b].submissionCount = 0 THEN "InvalidBatch"
    ELSE IF hasRequested[b][c] \/ hasSubmitted[b][c] THEN "InvalidState"
    ELSE "ok"
\* (mutant) a requester may ask again once its request no longer matches
requestOutcomeRetryInvalidated(c, b) ==
    IF ~whenNotPaused THEN "Paused"
    ELSE IF ~checkCooldown(c, lastRequestAt) THEN "RateLimited"
    ELSE IF batches[b].submissionCount = 0 THEN "InvalidBatch"
    ELSE IF hasRequested[b][c]
            /\ \E rid \in RequestIds :
                   /\ rid < counterRequest
                   /\ requestedHandles[rid].requester = c
                   /\ decryptionContexts[rid].batchId = b
                   /\ decryptionContexts[rid].stateHash
                          = hashCiphertexts(rebuildBatchSolution(b))
    THEN "InvalidState"
    ELSE "ok"
requestOutcome(c, b) ==
    IF ~whenNotPaused THEN "Paused"
    ELSE IF ~checkCooldown(c, lastRequestAt) THEN "RateLimited"
    ELSE IF batches[b].submissionCount = 0 THEN "InvalidBatch"
    ELSE IF hasRequested[b][c] THEN "InvalidState"
    ELSE "ok"

requestBatchSolution(c, b) ==
    IF requestOutcome(c, b) # "ok"
    THEN Reverted
    ELSE /\ requestDisclosure(b, c, rebuildBatchSolution(b), "handleBatchSolutionCallback")
         /\ hasRequested' = [hasRequested EXCEPT ![b][c] = TRUE]
         /\ lastRequestAt' = [lastRequestAt EXCEPT ![c] = now]
         /\ UNCHANGED <<owner, paused, cooldownSeconds, currentBatchId, modelVersion,
                        providers, lastSubmissionAt, batches, hasSubmitted,
                        settledLog, contributions, submitters, now>>

\* ------------------------------------------------------------ callbacks
\* FHE.checkSignatures: the KMS signs only the true cleartexts of the handles
\* saved for the request
checkSignatures(rid, cleartexts, proof) ==
    IF requestedHandles[rid].cts = <<>> THEN "NoHandleFoundForRequestID"
    ELSE IF ~(proof = "kms" /\ cleartexts = Decrypt(requestedHandles[rid].cts))
    THEN "InvalidKMSSignatures"
    ELSE "ok"

accusationCallbackOutcome(rid, cleartexts, proof) ==
    LET context == decryptionContexts[rid] IN
    IF context.processed THEN "AlreadyProcessed"
    ELSE IF context.modelVersion # modelVersion THEN "StaleVersion"
    ELSE IF ~AllInitialized(context.batchId) THEN "InvalidState"
    ELSE IF hashCiphertexts(<<rebuildIsCorrect(context.batchId)>>) # context.stateHash
    THEN "InvalidState"
    ELSE IF checkSignatures(rid, cleartexts, proof) # "ok"
    THEN checkSignatures(rid, cleartexts, proof)
    ELSE IF ~(Len(cleartexts) >= 1 /\ cleartexts[1] \in {Word(0), Word(1)}) THEN "DecodeError"
    ELSE "ok"

handleAccusationCallback(c, rid, cleartexts, proof) ==
    IF accusationCallbackOutcome(rid, cleartexts, proof) # "ok"
    THEN Reverted
    ELSE /\ decryptionContexts' = [decryptionContexts EXCEPT ![rid].processed = TRUE]
         /\ settledLog' = [settledLog EXCEPT ![rid] = Append(@,
                <<"Accusation", c, decryptionContexts[rid].batchId,
                  cleartexts[1] = Word(1)>>)]
         /\ UNCHANGED <<owner, paused, cooldownSeconds, currentBatchId, modelVersion,
                        providers, lastSubmissionAt, lastRequestAt, batches,
                        hasSubmitted, hasRequested, counterRequest, requestedHandles,
                        requestedLog, contributions, submitters, now>>

\* (mutant) no version check
solutionCallbackNoVersionCheck(rid, cleartexts, proof) ==
    LET context == decryptionContexts[rid] IN
    IF context.processed THEN "AlreadyProcessed"
    ELSE IF ~AllInitialized(context.batchId) THEN "InvalidState"
    ELSE IF hashCiphertexts(rebuildBatchSolution(context.batchId)) # context.stateHash
    THEN "InvalidState"
    ELSE IF checkSignatures(rid, cleartexts, proof) # "ok"
    THEN checkSignatures(rid, cleartexts, proof)
    ELSE IF Len(cleartexts) < 3 THEN "DecodeError"
    ELSE "ok"
\* (mutant) the hash is compared before the processed flag and the version
solutionCallbackHashFirst(rid, cleartexts, proof) ==
    LET context == decryptionContexts[rid] IN
    IF ~AllInitialized(context.batchId) THEN "InvalidState"
    ELSE IF hashCiphertexts(rebuildBatchSolution(context.batchId)) # context.stateHash
    THEN "InvalidState"
    ELSE IF context.processed THEN "AlreadyProcessed"
    ELSE IF context.modelVersion # modelVersion THEN "StaleVersion"
    ELSE IF checkSignatures(rid, cleartexts, proof) # "ok"
    THEN checkSignatures(rid, cleartexts, proof)
    ELSE IF Len(cleartexts) < 3 THEN "DecodeError"
    ELSE "ok"
solutionCallbackOutcome(rid, cleartexts, proof) ==
    LET context == decryptionContexts[rid] IN
    IF context.processed THEN "AlreadyProcessed"
    ELSE IF context.modelVersion # modelVersion THEN "StaleVersion"
    ELSE IF ~AllInitialized(context.batchId) THEN "InvalidState"
    ELSE IF hashCiphertexts(rebuildBatchSolution(context.batchId)) # context.stateHash
    THEN "InvalidState"
    ELSE IF checkSignatures(rid, cleartexts, proof) # "ok"
    THEN checkSignatures(rid, cleartexts, proof)
    ELSE IF Len(cleartexts) < 3 THEN "DecodeError"
    ELSE "ok"

\* (mutant) a settlement marks every context of the same batch processed
handleBatchSolutionCallbackSettlesBatch(c, rid, cleartexts, proof) ==
    IF solutionCallbackOutcome(rid, cleartexts, proof) # "ok"
    THEN Reverted
    ELSE /\ decryptionContexts' =
                [r \in RequestIds |->
                    IF r < counterRequest
                       /\ decryptionContexts[r].batchId = decryptionContexts[rid].batchId
                    THEN [decryptionContexts[r] EXCEPT !.processed = TRUE]
                    ELSE decryptionContexts[r]]
         /\ settledLog' = [settledLog EXCEPT ![rid] = Append(@,
                <<"DecryptionComplete", rid, decryptionContexts[rid].batchId,
                  cleartexts>>)]
         /\ UNCHANGED <<owner, paused, cooldownSeconds, currentBatchId, modelVersion,
                        providers, lastSubmissionAt, lastRequestAt, batches,
                        hasSubmitted, hasRequested, counterRequest, requestedHandles,
                        requestedLog, contributions, submitters, now>>
handleBatchSolutionCallback(c, rid, cleartexts, proof) ==
    IF solutionCallbackOutcome(rid, cleartexts, proof) # "ok"
    THEN Reverted
    ELSE /\ decryptionContexts' = [decryptionContexts EXCEPT ![rid].processed = TRUE]
         /\ settledLog' = [settledLog EXCEPT ![rid] = Append(@,
                <<"DecryptionComplete", rid, decryptionContexts[rid].batchId,
                  cleartexts>>)]
         /\ UNCHANGED <<owner, paused, cooldownSeconds, currentBatchId, modelVersion,
                        providers, lastSubmissionAt, lastRequestAt, batches,
                        hasSubmitted, hasRequested, counterRequest, requestedHandles,
                        requestedLog, contributions, submitters, now>>

\* ----------------------------------------------------------------- time
Tick ==
    /\ now < StartTime + MaxTicks * TickSeconds
    /\ now' = now + TickSeconds
    /\ UNCHANGED contractVars

\* what a delivery of the oracle's reply to request rid may carry: the signed
\* cleartexts, the cleartexts under a forged proof, and other cleartexts
\* under the genuine proof
Replies(rid) ==
    LET truth == Decrypt(requestedHandles[rid].cts) IN
    {<<truth, "kms">>, <<truth, "forged">>, <<<<Word(0), Word(0), Word(0)>>, "kms">>}

Next ==
    \/ \E c \in Addresses, p \in {NumPlayers} : addProvider(c, p)
    \/ \E c \in Addresses, p \in {NumPlayers} : removeProvider(c, p)
    \/ \E c \in Addresses : pause(c)
    \/ \E c \in Addresses : unpause(c)
    \/ \E c \in Addresses, n \in Cooldowns : setCooldown(c, n)
    \/ \E c \in Addresses : currentBatchId < MaxBatches /\ openBatch(c)
    \/ \E c \in Addresses, b \in BatchIds : closeBatch(c, b)
    \/ \E c \in Addresses, b \in BatchIds, g \in Guesses : submitEncryptedGuess(c, b, g)
    \/ \E c \in Addresses, b \in BatchIds, g \in Guesses : makeAccusation(c, b, g)
    \/ \E c \in Addresses, b \in BatchIds : requestBatchSolution(c, b)
    \/ \E c \in Relayers, rid \in RequestIds : \E r \in Replies(rid) :
           handleAccusationCallback(c, rid, r[1], r[2])
    \/ \E c \in Relayers, rid \in RequestIds : \E r \in Replies(rid) :
           handleBatchSolutionCallback(c, rid, r[1], r[2])
    \/ Tick

Spec == Init /\ [][Next]_vars

\* A batch filled to MAX_BATCH_SIZE: one more address than a batch holds, one
\* guess, the clock stopped; the batch lifecycle and the submissions only.
FullAddresses == 0 .. MAX_BATCH_SIZE
OneBatch == {0, 1}
InitFull == InitOver(FullAddresses, OneBatch)

NextFull ==
    \/ \E c \in {Deployer, MAX_BATCH_SIZE} : pause(c)
    \/ \E c \in {Deployer, MAX_BATCH_SIZE} : unpause(c)
    \/ \E c \in {Deployer, MAX_BATCH_SIZE} : setCooldown(c, 0)
    \/ \E c \in {Deployer, MAX_BATCH_SIZE} : currentBatchId = 0 /\ openBatch(c)
    \/ \E c \in {Deployer, MAX_BATCH_SIZE}, b \in OneBatch : closeBatch(c, b)
    \/ \E c \in FullAddresses, b \in OneBatch : submitEncryptedGuess(c, b, GuessA)

SpecFull == InitFull /\ [][NextFull]_vars

\* A batch filled in turn: identities 1, 2, ... submit one after the other
\* (the identity whose turn it is, or the last one again once the batch is
\* full), while the owner may accuse, solutions are requested and the
\* oracle's replies delivered; the clock stopped.
NextInTurn ==
    \/ currentBatchId = 0 /\ openBatch(Deployer)
    \/ \E c \in FullAddresses \ {Deployer}, g \in Guesses :
           /\ c = IF batches[1].submissionCount < MAX_BATCH_SIZE
                  THEN batches[1].submissionCount + 1 ELSE MAX_BATCH_SIZE
           /\ submitEncryptedGuess(c, 1, IF c = 1 THEN g ELSE GuessA)
    \/ \E g \in Guesses : makeAccusation(Deployer, 1, g)
    \/ \E c \in {Deployer, 1} : requestBatchSolution(c, 1)
    \/ \E rid \in RequestIds : \E r \in Replies(rid) :
           handleBatchSolutionCallback(Deployer, rid, r[1], r[2])

SpecInTurn == InitFull /\ [][NextInTurn]_vars

\* One round: a batch is opened, up to four identities submit either guess,
\* the batch is closed, solutions are requested and the oracle's replies
\* delivered; the clock stopped.
RoundAddresses == 0 .. 3
InitRound == InitOver(RoundAddresses, OneBatch)

NextRound ==
    \/ \E c \in {Deployer, 1} : currentBatchId = 0 /\ openBatch(c)
    \/ \E c \in {Deployer, 1}, b \in OneBatch : closeBatch(c, b)
    \/ \E c \in RoundAddresses, b \in OneBatch, g \in Guesses :
           submitEncryptedGuess(c, b, g)
    \/ \E c \in RoundAddresses, b \in OneBatch : requestBatchSolution(c, b)
    \/ \E c \in {Deployer, 1}, rid \in RequestIds : \E r \in Replies(rid) :
           handleBatchSolutionCallback(c, rid, r[1], r[2])

SpecRound == InitRound /\ [][NextRound]_vars

\* Submission-type actions of one address over several batches, with the
\* clock running: the pause flag, the cooldown, the batch lifecycle,
\* submissions and accusations.
SeveralBatchIds == 0 .. MaxBatches + 1
InitSeveral == InitOver(Addresses, SeveralBatchIds)

NextSeveral ==
    \/ \E c \in Addresses : pause(c)
    \/ \E c \in Addresses : unpause(c)
    \/ \E c \in Addresses, n \in Cooldowns : setCooldown(c, n)
    \/ \E c \in Addresses : currentBatchId < MaxBatches + 1 /\ openBatch(c)
    \/ \E c \in Addresses, b \in SeveralBatchIds : closeBatch(c, b)
    \/ \E c \in Addresses, b \in SeveralBatchIds : submitEncryptedGuess(c, b, GuessA)
    \/ \E c \in Addresses, b \in SeveralBatchIds : makeAccusation(c, b, GuessA)
    \/ Tick

SpecSeveral == InitSeveral /\ [][NextSeveral]_vars

\* ======================================================================
\* Properties
\* ======================================================================
Issued(rid) == rid < counterRequest
IsSolutionRequest(rid) ==
    Issued(rid) /\ requestedHandles[rid].selector = "handleBatchSolutionCallback"
IsAccusationRequest(rid) ==
    Issued(rid) /\ requestedHandles[rid].selector = "handleAccusationCallback"
\* the oracle's reply to request rid
HonestReply(rid) == <<Decrypt(requestedHandles[rid].cts), "kms">>
\* a submission was accepted on the request's batch after the request
SubmissionSince(rid) ==
    batches[decryptionContexts[rid].batchId].submissionCount
        # requestedHandles[rid].submissionCount
\* the plaintext sum of the guesses accepted before the request
SumAtRequest(rid) ==
    SumFirst(contributions[decryptionContexts[rid].batchId],
             requestedHandles[rid].submissionCount)

\* C1: while a solution request is unsettled and a submission has been accepted
\* on its batch since the request was issued, handleBatchSolutionCallback
\* reverts with InvalidState whatever reply it is given, the context is
\* unprocessed and no DecryptionComplete event exists for it; a settled
\* request disclosed the sum as it was when the request was issued.
C1_SubmissionAfterRequestRejected ==
    \A rid \in RequestIds :
        IsSolutionRequest(rid) =>
            /\ (SubmissionSince(rid) /\ ~decryptionContexts[rid].processed) =>
                   /\ \A r \in Replies(rid) :
                          solutionCallbackOutcome(rid, r[1], r[2]) = "InvalidState"
                   /\ settledLog[rid] = <<>>
            /\ decryptionContexts[rid].processed =>
                   /\ settledLog[rid] # <<>>
                   /\ settledLog[rid][1][4] = SumAtRequest(rid)

C1_Witness ==
    \E rid \in RequestIds :
        /\ IsSolutionRequest(rid)
        /\ SubmissionSince(rid)
        /\ ~decryptionContexts[rid].processed
        /\ solutionCallbackOutcome(rid, HonestReply(rid)[1], HonestReply(rid)[2])
               = "InvalidState"

\* C2: every disclosure context is settled exactly once.  The first delivery
\* of the oracle's reply for a pending request whose batch is as it was at
\* the request, by the callback the request named (handleBatchSolutionCallback
\* for requestBatchSolution, handleAccusationCallback for makeAccusation),
\* settles it; once a context is processed both callbacks revert with
\* AlreadyProcessed for every reply; no requestId ever has more than one
\* settlement event.
C2_SettledOnceThenReplayFails ==
    \A rid \in RequestIds :
        /\ Len(settledLog[rid]) <= 1
        /\ decryptionContexts[rid].processed <=> Len(settledLog[rid]) = 1
        /\ decryptionContexts[rid].processed =>
               \A r \in Replies(rid) :
                   /\ solutionCallbackOutcome(rid, r[1], r[2]) = "AlreadyProcessed"
                   /\ accusationCallbackOutcome(rid, r[1], r[2]) = "AlreadyProcessed"
        /\ (Issued(rid) /\ ~decryptionContexts[rid].processed
                /\ AllInitialized(decryptionContexts[rid].batchId)
                /\ ~SubmissionSince(rid)) =>
               \A c \in Relayers :
                   /\ IsSolutionRequest(rid) =>
                          ENABLED (/\ handleBatchSolutionCallback(c, rid,
                                          HonestReply(rid)[1], HonestReply(rid)[2])
                                   /\ Len(settledLog'[rid]) = 1)
                   /\ IsAccusationRequest(rid) =>
                          ENABLED (/\ handleAccusationCallback(c, rid,
                                          HonestReply(rid)[1], HonestReply(rid)[2])
                                   /\ Len(settledLog'[rid]) = 1)

\* C3: once a disclosure request is pending, an administrative step can bump
\* modelVersion, after which the request's bindingVersion is stale.
C3_VersionBumpInvalidatesPending ==
    \A rid \in RequestIds :
        (Issued(rid) /\ ~decryptionContexts[rid].processed) =>
            ENABLED (Next /\ modelVersion' > modelVersion
                          /\ decryptionContexts'[rid].modelVersion # modelVersion')

\* C4: no batch ever holds more than MAX_BATCH_SIZE submissions; a submission
\* to an open batch that holds MAX_BATCH_SIZE is never accepted, whoever makes
\* it, and reverts with BatchFull whenever it passes the pause and cooldown
\* modifiers.
C4_BatchNeverOverfull ==
    \A b \in OneBatch :
        /\ batches[b].submissionCount <= MAX_BATCH_SIZE
        /\ (batches[b].isOpen /\ batches[b].submissionCount = MAX_BATCH_SIZE) =>
               \A c \in FullAddresses :
                   /\ submitOutcome(c, b) # "ok"
                   /\ (whenNotPaused /\ checkCooldown(c, lastSubmissionAt)) =>
                          submitOutcome(c, b) = "BatchFull"

C4_Witness ==
    \E b \in OneBatch, c \in FullAddresses :
        /\ batches[b].isOpen
        /\ batches[b].submissionCount = MAX_BATCH_SIZE
        /\ Cardinality(submitters[b]) = MAX_BATCH_SIZE
        /\ ~hasSubmitted[b][c]
        /\ submitOutcome(c, b) = "BatchFull"

\* C5: every accepted submission of a batch is by a different identity, and
\* an identity that is a submitter of a batch is never accepted again on it:
\* its submission reverts, with InvalidState whenever it passes the pause,
\* cooldown, open and size checks.
C5_NoDoubleSubmission ==
    \A b \in BatchIds :
        /\ Cardinality(submitters[b]) = batches[b].submissionCount
        /\ \A c \in Addresses :
               (c \in submitters[b] \/ hasSubmitted[b][c]) =>
                   /\ hasSubmitted[b][c]
                   /\ submitOutcome(c, b) # "ok"
                   /\ (whenNotPaused /\ checkCooldown(c, lastSubmissionAt)
                          /\ batches[b].isOpen
                          /\ batches[b].submissionCount < MAX_BATCH_SIZE) =>
                          submitOutcome(c, b) = "InvalidState"

C5_Witness ==
    \E b \in BatchIds, c \in Addresses :
        /\ c \in submitters[b]
        /\ submitOutcome(c, b) = "InvalidState"

\* C6: a submission by an identity made less than cooldownSeconds after its
\* last accepted submission-type action reverts with RateLimited; once
\* now >= lastSubmissionAt + cooldownSeconds it is accepted (on an open batch
\* with room, by an identity that is not yet a submitter, while not paused);
\* an accepted submission is never within the cooldown of the previous one
\* and records now as the identity's last submission time.
C6_InWindow(c, b) ==
    (whenNotPaused /\ now < lastSubmissionAt[c] + cooldownSeconds) =>
        submitOutcome(c, b) = "RateLimited"

C6_AfterWindow(c, b) ==
    (whenNotPaused /\ now >= lastSubmissionAt[c] + cooldownSeconds
        /\ batches[b].isOpen /\ batches[b].submissionCount < MAX_BATCH_SIZE
        /\ ~hasSubmitted[b][c]) =>
        submitOutcome(c, b) = "ok"

C6_Accepted(c, b) ==
    (c \notin submitters[b] /\ c \in submitters'[b]) =>
        /\ now >= lastSubmissionAt[c] + cooldownSeconds
        /\ lastSubmissionAt'[c] = now

\* C6: (formula) the cooldown window as defined above, in every state and step
C6_Cooldown ==
    /\ [](\A c \in Addresses, b \in SeveralBatchIds :
              C6_InWindow(c, b) /\ C6_AfterWindow(c, b))
    /\ [][\A c \in Addresses, b \in SeveralBatchIds : C6_Accepted(c, b)]_vars

\* an identity with two accepted submissions, the second one cooldown after
\* the first, and now rate limited
C6_Witness ==
    \E c \in Addresses :
        /\ c \in submitters[1] /\ c \in submitters[2]
        /\ cooldownSeconds = InitialCooldown
        /\ lastSubmissionAt[c] = StartTime + TickSeconds
        /\ \A b \in SeveralBatchIds : submitOutcome(c, b) \in {"RateLimited", "Paused"}

\* C7: in a batch the number of distinct submitters equals submissionCount
\* and the three aggregates decrypt, field by field, to the sum modulo 2^32
\* of the accepted guesses; a solution request on a batch with submissions
\* is accepted from any identity that has not requested it (open or closed
\* batch, while not paused and off cooldown); the oracle's reply carries the
\* sum of the guesses accepted before the request, its delivery succeeds
\* while no submission has landed since, and the DecryptionComplete event
\* carries exactly these three values.
C7_SolutionMatchesContributions ==
    /\ \A b \in OneBatch :
           /\ Cardinality(submitters[b]) = batches[b].submissionCount
           /\ Len(contributions[b]) = batches[b].submissionCount
           /\ batches[b].submissionCount > 0 =>
                  Decrypt(rebuildBatchSolution(b))
                      = SumFirst(contributions[b], batches[b].submissionCount)
           /\ \A c \in RoundAddresses :
                  (batches[b].submissionCount > 0 /\ ~hasRequested[b][c]
                      /\ whenNotPaused /\ checkCooldown(c, lastRequestAt)) =>
                      requestOutcome(c, b) = "ok"
    /\ \A rid \in RequestIds :
           IsSolutionRequest(rid) =>
               /\ HonestReply(rid)[1] = SumAtRequest(rid)
               /\ (~decryptionContexts[rid].processed /\ ~SubmissionSince(rid)) =>
                      solutionCallbackOutcome(rid, HonestReply(rid)[1], HonestReply(rid)[2])
                          = "ok"
               /\ decryptionContexts[rid].processed =>
                      settledLog[rid] =
                          << <<"DecryptionComplete", rid, decryptionContexts[rid].batchId,
                               SumAtRequest(rid)>> >>

\* three submitters, one sum wrapping around, the batch closed, the solution
\* requested by a fourth identity and settled
C7_Witness ==
    \E rid \in RequestIds :
        LET b == decryptionContexts[rid].batchId IN
        /\ IsSolutionRequest(rid)
        /\ decryptionContexts[rid].processed
        /\ ~batches[b].isOpen
        /\ contributions[b] = <<GuessA, GuessB, GuessA>>
        /\ requestedHandles[rid].submissionCount = 3
        /\ requestedHandles[rid].requester \notin submitters[b]
        /\ settledLog[rid][1][4] = <<Word(1), Word(6), Word(11)>>

\* C8: after a batch is opened and identity A has submitted one guess to
\* it, A -- not paused and past its cooldown -- can make an accusation
\* against the same still-open batch.
C8_SubmitterCanAccuse ==
    \A b \in BatchIds, c \in Addresses :
        (batches[b].isOpen /\ submitters[b] = {c}
            /\ batches[b].submissionCount = 1
            /\ whenNotPaused /\ checkCooldown(c, lastSubmissionAt)) =>
            accusationOutcome(c, b) = "ok"

\* C9: an issued decryption context stays issued and keeps its batchId,
\* modelVersion and stateHash; processed starts false, never goes from true
\* to false, and changes only in the step that records the request's
\* settlement, which touches no other context; an id not yet issued holds
\* the zero context.
C9_ContextLifecycle ==
    [][\A rid \in RequestIds :
           LET ctx == decryptionContexts[rid]
               ctxNext == decryptionContexts'[rid]
           IN  /\ rid < counterRequest =>
                      /\ rid < counterRequest'
                      /\ ctxNext.batchId = ctx.batchId
                      /\ ctxNext.modelVersion = ctx.modelVersion
                      /\ ctxNext.stateHash = ctx.stateHash
                      /\ ctx.processed => ctxNext.processed
                      /\ ctxNext.processed # ctx.processed =>
                             /\ Len(settledLog[rid]) = 0
                             /\ Len(settledLog'[rid]) = 1
                             /\ \A other \in RequestIds \ {rid} :
                                    decryptionContexts'[other] = decryptionContexts[other]
               /\ ~(rid < counterRequest) =>
                      /\ ctx = NoContext
                      /\ rid < counterRequest' =>
                             /\ ~ctxNext.processed
                             /\ ctxNext.stateHash # ZeroHash
                             /\ ctxNext.modelVersion = modelVersion
      ]_vars

\* a settled context next to a pending one
C9_Witness ==
    \E r1, r2 \in RequestIds :
        /\ r1 < counterRequest /\ r2 < counterRequest
        /\ decryptionContexts[r1].processed
        /\ Len(settledLog[r1]) = 1
        /\ ~decryptionContexts[r2].processed

\* C10: in every step taken while a batch's isOpen is false, whatever the
\* operation and the caller, the batch's encryptedWeapon, encryptedRoom,
\* encryptedSuspect and submissionCount are unchanged.
C10_ClosedBatchFrozen ==
    [][\A b \in BatchIds :
           ~batches[b].isOpen =>
               /\ batches'[b].encryptedWeapon = batches[b].encryptedWeapon
               /\ batches'[b].encryptedRoom = batches[b].encryptedRoom
               /\ batches'[b].encryptedSuspect = batches[b].encryptedSuspect
               /\ batches'[b].submissionCount = batches[b].submissionCount
      ]_vars

\* a closed batch holding a submission whose solution was requested and settled
C10_Witness ==
    \E b \in BatchIds, rid \in RequestIds :
        /\ ~batches[b].isOpen
        /\ batches[b].submissionCount > 0
        /\ IsSolutionRequest(rid)
        /\ decryptionContexts[rid].batchId = b
        /\ decryptionContexts[rid].processed
        /\ Decrypt(rebuildBatchSolution(b)) = settledLog[rid][1][4]

\* an accepted submission-type call of c on b, with all of its effects
C11_SubmissionApplied(c, b) ==
    /\ submitOutcome(c, b) = "ok" \/ accusationOutcome(c, b) = "ok"
    /\ ~hasSubmitted[b][c] /\ hasSubmitted'[b][c]
    /\ lastSubmissionAt'[c] = now
    /\ \/ /\ submitOutcome(c, b) = "ok"
          /\ batches'[b].submissionCount = batches[b].submissionCount + 1
          /\ Len(contributions'[b]) = Len(contributions[b]) + 1
          /\ UNCHANGED <<decryptionContexts, counterRequest>>
       \/ /\ accusationOutcome(c, b) = "ok"
          /\ counterRequest' = counterRequest + 1
          /\ decryptionContexts'[counterRequest].batchId = b
          /\ decryptionContexts'[counterRequest].stateHash # ZeroHash
          /\ requestedLog'[counterRequest] # requestedLog[counterRequest]
          /\ UNCHANGED batches

\* an accepted solution request of c on b, with all of its effects
C11_RequestApplied(c, b) ==
    /\ requestOutcome(c, b) = "ok"
    /\ ~hasRequested[b][c] /\ hasRequested'[b][c]
    /\ lastRequestAt'[c] = now
    /\ counterRequest' = counterRequest + 1
    /\ decryptionContexts'[counterRequest].batchId = b
    /\ decryptionContexts'[counterRequest].stateHash # ZeroHash
    /\ requestedLog'[counterRequest] # requestedLog[counterRequest]
    /\ UNCHANGED batches

\* an accepted delivery for request rid, with all of its effects
C11_SettlementApplied(rid) ==
    /\ \E r \in Replies(rid) :
           \/ solutionCallbackOutcome(rid, r[1], r[2]) = "ok"
           \/ accusationCallbackOutcome(rid, r[1], r[2]) = "ok"
    /\ ~decryptionContexts[rid].processed /\ decryptionContexts'[rid].processed
    /\ Len(settledLog'[rid]) = Len(settledLog[rid]) + 1
    /\ UNCHANGED <<batches, counterRequest, requestedLog, hasSubmitted, hasRequested,
                   lastSubmissionAt, lastRequestAt>>

\* C11: a call that fails changes nothing.  Read on the steps: whenever a
\* step alters a ledger entry, a dedup flag, a batch's aggregates or count,
\* a context or an event log, some call whose outcome is "ok" in the state
\* before accounts for the change and has applied all of its effects; in
\* particular lastSubmissionAt[c] / lastRequestAt[c] move only when a
\* submission-type / request-type call of c is accepted.
C11_FailedCallsChangeNothing ==
    [][/\ \A c \in Addresses :
              (\/ lastSubmissionAt'[c] # lastSubmissionAt[c]
               \/ \E b \in BatchIds : hasSubmitted'[b][c] # hasSubmitted[b][c]) =>
                  \E b \in BatchIds : C11_SubmissionApplied(c, b)
       /\ \A c \in Addresses :
              (\/ lastRequestAt'[c] # lastRequestAt[c]
               \/ \E b \in BatchIds : hasRequested'[b][c] # hasRequested[b][c]) =>
                  \E b \in BatchIds : C11_RequestApplied(c, b)
       /\ \A b \in BatchIds :
              (\/ [batches'[b] EXCEPT !.isOpen = FALSE] # [batches[b] EXCEPT !.isOpen = FALSE]
               \/ contributions'[b] # contributions[b]
               \/ submitters'[b] # submitters[b]) =>
                  \E c \in Addresses :
                      submitOutcome(c, b) = "ok" /\ C11_SubmissionApplied(c, b)
       /\ (\/ decryptionContexts' # decryptionContexts
           \/ counterRequest' # counterRequest
           \/ requestedLog' # requestedLog
           \/ requestedHandles' # requestedHandles
           \/ settledLog' # settledLog) =>
              \/ \E c \in Addresses, b \in BatchIds :
                     \/ accusationOutcome(c, b) = "ok" /\ C11_SubmissionApplied(c, b)
                     \/ C11_RequestApplied(c, b)
              \/ \E rid \in RequestIds : C11_SettlementApplied(rid)
      ]_vars

\* the clock has moved past an accepted submission and request of c, whose
\* next submission to the batch is rejected by a check of the body while a
\* delivery for an already settled request is rejected too
C11_Witness ==
    \E c \in Addresses, b \in BatchIds, rid \in RequestIds :
        /\ submitOutcome(c, b) = "InvalidState"
        /\ requestOutcome(c, b) = "InvalidState"
        /\ now > lastSubmissionAt[c] /\ lastSubmissionAt[c] > 0
        /\ now > lastRequestAt[c] /\ lastRequestAt[c] > 0
        /\ solutionCallbackOutcome(rid, HonestReply(rid)[1], HonestReply(rid)[2])
               = "AlreadyProcessed"

\* the honest delivery for the solution request rid would be accepted
C12_Settleable(rid) ==
    solutionCallbackOutcome(rid, HonestReply(rid)[1], HonestReply(rid)[2]) = "ok"

\* C12: closing a batch does not block solution disclosure.  On a closed
\* batch with submissionCount > 0 a requestBatchSolution by an identity that
\* has not requested it, not paused and off cooldown, is accepted; a pending
\* solution request on a closed batch with no submission since it was issued
\* is settleable; and the step that closes a batch leaves every settleable
\* pending solution request settleable.
C12_ClosedBatchStillDiscloses ==
    /\ [](\A b \in BatchIds :
              (~batches[b].isOpen /\ batches[b].submissionCount > 0) =>
                  /\ \A c \in Addresses :
                         (~hasRequested[b][c] /\ whenNotPaused
                             /\ checkCooldown(c, lastRequestAt)) =>
                             requestOutcome(c, b) = "ok"
                  /\ \A rid \in RequestIds :
                         (IsSolutionRequest(rid)
                             /\ decryptionContexts[rid].batchId = b
                             /\ ~decryptionContexts[rid].processed
                             /\ ~SubmissionSince(rid)) => C12_Settleable(rid))
    /\ [][\A b \in BatchIds :
              (batches[b].isOpen /\ ~batches'[b].isOpen) =>
                  \A rid \in RequestIds :
                      (IsSolutionRequest(rid) /\ decryptionContexts[rid].batchId = b
                          /\ C12_Settleable(rid)) => C12_Settleable(rid)'
         ]_vars

\* a closed batch with one solution request settled and another one, by an
\* identity that is off cooldown again, pending and settleable
C12_Witness ==
    \E b \in BatchIds, r1, r2 \in RequestIds :
        /\ ~batches[b].isOpen /\ batches[b].submissionCount > 0
        /\ IsSolutionRequest(r1) /\ IsSolutionRequest(r2)
        /\ decryptionContexts[r1].batchId = b /\ decryptionContexts[r2].batchId = b
        /\ decryptionContexts[r1].processed
        /\ ~decryptionContexts[r2].processed /\ C12_Settleable(r2)

\* batch b has been opened and then closed (openBatch opens every id from 1
\* to currentBatchId exactly once)
C13_WasClosed(b) == b >= 1 /\ b <= currentBatchId /\ ~batches[b].isOpen

\* C13: closed is terminal for contributions.  A batch that has been closed
\* is still closed after every step (openBatch included), and every
\* submitEncryptedGuess or makeAccusation on it fails: with BatchClosed when
\* the call passes the pause and cooldown modifiers, with Paused or
\* RateLimited otherwise.
C13_ClosedIsTerminal ==
    /\ [](\A b \in SeveralBatchIds, c \in Addresses :
              C13_WasClosed(b) =>
                  /\ submitOutcome(c, b) \in {"Paused", "RateLimited", "BatchClosed"}
                  /\ accusationOutcome(c, b) \in {"Paused", "RateLimited", "BatchClosed"}
                  /\ (whenNotPaused /\ checkCooldown(c, lastSubmissionAt)) =>
                         /\ submitOutcome(c, b) = "BatchClosed"
                         /\ accusationOutcome(c, b) = "BatchClosed")
    /\ [][\A b \in SeveralBatchIds :
              C13_WasClosed(b) => ~batches'[b].isOpen /\ b <= currentBatchId'
         ]_vars

\* batch 1 was closed with a submission in it, batch 2 has been opened since,
\* and an identity that never touched batch 1 is free to act
C13_Witness ==
    \E c \in Addresses :
        /\ C13_WasClosed(1)
        /\ batches[1].submissionCount > 0
        /\ currentBatchId = 2 /\ batches[2].isOpen
        /\ ~hasSubmitted[1][c]
        /\ submitOutcome(c, 1) = "BatchClosed"
        /\ accusationOutcome(c, 1) = "BatchClosed"
        /\ submitOutcome(c, 2) = "ok"

\* the version stored under rid differs from the current version
C14_Stale(rid) == decryptionContexts[rid].modelVersion # modelVersion

C15_Submitted(x) == \E b \in BatchIds : ~hasSubmitted[b][x] /\ hasSubmitted'[b][x]
\* the step is an accepted request-type action of x
C15_Requested(x) == \E b \in BatchIds : ~hasRequested[b][x] /\ hasRequested'[b][x]

\* C15: rate limiting is independent across categories and identities.  An
\* accepted submission-type action of x writes lastSubmissionAt[x] and no
\* other ledger entry, an accepted request-type action of x writes
\* lastRequestAt[x] and no other; a ledger entry changes in no other step.
\* So a submission of x never turns a solution request of anyone, or a
\* submission of another identity, into RateLimited, and a request of x
\* never does so to a submission of anyone or a request of another identity.
C15_LedgersIndependent ==
    [][\A x \in Addresses :
           /\ C15_Submitted(x) =>
                  /\ lastSubmissionAt' = [lastSubmissionAt EXCEPT ![x] = now]
                  /\ lastRequestAt' = lastRequestAt
                  /\ \A y \in Addresses, b \in BatchIds :
                         /\ requestOutcome(y, b)' = "RateLimited" =>
                                requestOutcome(y, b) = "RateLimited"
                         /\ (y # x /\ submitOutcome(y, b)' = "RateLimited") =>
                                submitOutcome(y, b) = "RateLimited"
           /\ C15_Requested(x) =>
                  /\ lastRequestAt' = [lastRequestAt EXCEPT ![x] = now]
                  /\ lastSubmissionAt' = lastSubmissionAt
                  /\ \A y \in Addresses, b \in BatchIds :
                         /\ submitOutcome(y, b)' = "RateLimited" =>
                                submitOutcome(y, b) = "RateLimited"
                         /\ accusationOutcome(y, b)' = "RateLimited" =>
                                accusationOutcome(y, b) = "RateLimited"
                         /\ (y # x /\ requestOutcome(y, b)' = "RateLimited") =>
                                requestOutcome(y, b) = "RateLimited"
           /\ lastSubmissionAt'[x] # lastSubmissionAt[x] => C15_Submitted(x)
           /\ lastRequestAt'[x] # lastRequestAt[x] => C15_Requested(x)
      ]_vars

\* y is inside its submission window and x inside its request window, yet
\* x may submit and y may request
C15_Witness ==
    \E x, y \in Addresses, b \in BatchIds :
        /\ x # y
        /\ submitOutcome(y, b) = "RateLimited" /\ lastSubmissionAt[y] = now
        /\ requestOutcome(x, b) = "RateLimited" /\ lastRequestAt[x] = now
        /\ submitOutcome(x, b) = "ok"
        /\ requestOutcome(y, b) = "ok"

\* identity c has an accepted accusation against batch b
C16_Accused(c, b) ==
    \E rid \in RequestIds :
        /\ IsAccusationRequest(rid)
        /\ requestedHandles[rid].requester = c
        /\ decryptionContexts[rid].batchId = b

\* C16: an accusation and a contribution exclude each other per address and
\* batch.  Once c's submitEncryptedGuess on b has been accepted, c's
\* makeAccusation on b fails, and once c's makeAccusation on b has been
\* accepted, c's submitEncryptedGuess on b fails; the error is InvalidState
\* whenever the call passes the checks that come before the dedup check
\* (pause, cooldown, batch open, and for a submission batch not full).
C16_AccusationExcludesContribution ==
    \A b \in BatchIds, c \in Addresses :
        /\ c \in submitters[b] =>
               /\ accusationOutcome(c, b) # "ok"
               /\ (whenNotPaused /\ checkCooldown(c, lastSubmissionAt)
                      /\ batches[b].isOpen) => accusationOutcome(c, b) = "InvalidState"
        /\ C16_Accused(c, b) =>
               /\ submitOutcome(c, b) # "ok"
               /\ (whenNotPaused /\ checkCooldown(c, lastSubmissionAt)
                      /\ batches[b].isOpen
                      /\ batches[b].submissionCount < MAX_BATCH_SIZE) =>
                      submitOutcome(c, b) = "InvalidState"
        /\ ~(c \in submitters[b] /\ C16_Accused(c, b))

\* in an open batch x has contributed and y has accused; both are off
\* cooldown again and each is refused the other action
C16_Witness ==
    \E x, y \in Addresses, b \in BatchIds :
        /\ x \in submitters[b] /\ C16_Accused(y, b)
        /\ accusationOutcome(x, b) = "InvalidState"
        /\ submitOutcome(y, b) = "InvalidState"

\* identity c has an accepted solution request on batch b
C17_Requester(c, b) ==
    \E rid \in RequestIds :
        /\ IsSolutionRequest(rid)
        /\ requestedHandles[rid].requester = c
        /\ decryptionContexts[rid].batchId = b

\* C17: for a caller that passes the pause and cooldown modifiers,
\* requestBatchSolution(b) fails with InvalidBatch when submissionCount is 0,
\* with InvalidState when the caller has already requested b, and is
\* accepted otherwise, whether or not the caller has submitted or accused on
\* b; hasRequested[b][c] holds exactly for the accepted requesters, and a
\* submission or accusation is judged without regard to hasRequested.
C17_RequestPreconditions ==
    \A b \in BatchIds, c \in Addresses :
        /\ (whenNotPaused /\ checkCooldown(c, lastRequestAt)) =>
               /\ batches[b].submissionCount = 0 => requestOutcome(c, b) = "InvalidBatch"
               /\ (batches[b].submissionCount > 0 /\ hasRequested[b][c]) =>
                      requestOutcome(c, b) = "InvalidState"
               /\ (batches[b].submissionCount > 0 /\ ~hasRequested[b][c]) =>
                      requestOutcome(c, b) = "ok"
        /\ hasRequested[b][c] <=> C17_Requester(c, b)
        /\ (whenNotPaused /\ checkCooldown(c, lastSubmissionAt) /\ batches[b].isOpen
               /\ ~hasSubmitted[b][c]) =>
               /\ accusationOutcome(c, b) = "ok"
               /\ batches[b].submissionCount < MAX_BATCH_SIZE => submitOutcome(c, b) = "ok"

\* x has submitted to b and requested its solution, and is refused a second
\* request; y has accused on b and may still request; y, a requester of
\* nothing, is refused on the empty batch 0
C17_Witness ==
    \E x, y \in Addresses, b \in BatchIds :
        /\ x \in submitters[b] /\ C17_Requester(x, b)
        /\ requestOutcome(x, b) = "InvalidState"
        /\ C16_Accused(y, b) /\ hasSubmitted[b][y]
        /\ requestOutcome(y, b) = "ok"
        /\ requestOutcome(y, 0) = "InvalidBatch"

\* C18: while paused is set every submitEncryptedGuess, makeAccusation and
\* requestBatchSolution fails with Paused, whatever the batch, the caller and
\* the cooldown state; while it is not set none of them fails with Paused;
\* and a step that sets or clears the flag changes nothing else, so after
\* unpause the calls are judged by their other preconditions as they stand.
C18_PauseBlocksPlayers ==
    /\ [](\A c \in Addresses, b \in BatchIds :
              /\ paused =>
                     /\ submitOutcome(c, b) = "Paused"
                     /\ accusationOutcome(c, b) = "Paused"
                     /\ requestOutcome(c, b) = "Paused"
              /\ ~paused =>
                     /\ submitOutcome(c, b) # "Paused"
                     /\ accusationOutcome(c, b) # "Paused"
                     /\ requestOutcome(c, b) # "Paused")
    /\ [][paused' # paused =>
              UNCHANGED <<owner, cooldownSeconds, currentBatchId, modelVersion,
                          providers, lastSubmissionAt, lastRequestAt, batches,
                          decryptionContexts, hasSubmitted, hasRequested,
                          counterRequest, requestedHandles, requestedLog, settledLog,
                          contributions, submitters, now>>
         ]_vars

\* paused, with an open non-empty batch and an identity whose every other
\* precondition for submitting, accusing and requesting holds
C18_Witness ==
    \E c \in Addresses, b \in BatchIds :
        /\ paused
        /\ batches[b].isOpen /\ batches[b].submissionCount > 0
        /\ ~hasSubmitted[b][c] /\ ~hasRequested[b][c]
        /\ checkCooldown(c, lastSubmissionAt) /\ checkCooldown(c, lastRequestAt)
        /\ submitOutcome(c, b) = "Paused"
        /\ accusationOutcome(c, b) = "Paused"
        /\ requestOutcome(c, b) = "Paused"

\* the step is a call of an administrative function by c
C19_AdminCall(c) ==
    \/ \E p \in Addresses : addProvider(c, p) \/ removeProvider(c, p)
    \/ pause(c)
    \/ unpause(c)
    \/ \E n \in Cooldowns : setCooldown(c, n)
    \/ openBatch(c)
    \/ \E b \in BatchIds : closeBatch(c, b)

\* C19: the owner is the deployer in every state; an identity other than the
\* owner does not pass onlyOwner, and a step that is its call of addProvider,
\* removeProvider, pause, unpause, setCooldown, openBatch or closeBatch
\* changes nothing; no step changes owner.
C19_OnlyOwnerAdministers ==
    /\ [](/\ owner = Deployer
          /\ \A c \in Addresses : onlyOwner(c) <=> c = Deployer)
    /\ [][/\ owner' = owner
          /\ \A c \in Addresses \ {Deployer} : C19_AdminCall(c) => UNCHANGED vars
         ]_vars

\* the owner has used every administrative function: a provider added, the
\* contract paused, the cooldown changed, a batch opened and closed again;
\* the other identity has been able to contribute meanwhile
C19_Witness ==
    \E c \in Addresses \ {Deployer}, b \in BatchIds :
        /\ ~onlyOwner(c)
        /\ providers[NumPlayers]
        /\ paused
        /\ cooldownSeconds # InitialCooldown
        /\ currentBatchId = b /\ b >= 1 /\ ~batches[b].isOpen
        /\ c \in submitters[b]

\* C20: a pending accusation request can be settled by whoever delivers the
\* oracle's reply, and the Accusation event then emitted carries the
\* identity that called makeAccusation for the request, the context's
\* batchId and the decrypted result.
C20_AccusationReportsAccuser ==
    \A rid \in RequestIds, c \in Relayers :
        (IsAccusationRequest(rid) /\ ~decryptionContexts[rid].processed) =>
            ENABLED (/\ handleAccusationCallback(c, rid, HonestReply(rid)[1],
                                                 HonestReply(rid)[2])
                     /\ settledLog'[rid] =
                            << <<"Accusation", requestedHandles[rid].requester,
                                 decryptionContexts[rid].batchId,
                                 HonestReply(rid)[1][1] = Word(1)>> >>)

\* C21: an accusation request is settleable.  For a pending request created
\* by makeAccusation on a batch whose aggregates are initialised and have
\* received no submission since the request, handleAccusationCallback with
\* the oracle's cleartext and proof is accepted.
C21_AccusationSettleable ==
    \A rid \in RequestIds :
        (IsAccusationRequest(rid) /\ ~decryptionContexts[rid].processed
            /\ AllInitialized(decryptionContexts[rid].batchId)
            /\ ~SubmissionSince(rid)) =>
            accusationCallbackOutcome(rid, HonestReply(rid)[1], HonestReply(rid)[2]) = "ok"

\* C22: a delivery for a request id under which no request has been issued
\* fails, whichever callback receives it and whatever it carries (the
\* contract reports StaleVersion, the stored version of an absent context
\* being 0); the id holds the zero context and has no event, and a step
\* gives it a context only by issuing the next request under it.
C22_UnknownRequestRejected ==
    /\ [](\A rid \in RequestIds :
              ~Issued(rid) =>
                  /\ decryptionContexts[rid] = NoContext
                  /\ settledLog[rid] = <<>>
                  /\ \A r \in Replies(rid) :
                         /\ solutionCallbackOutcome(rid, r[1], r[2]) = "StaleVersion"
                         /\ accusationCallbackOutcome(rid, r[1], r[2]) = "StaleVersion")
    /\ [][\A rid \in RequestIds :
              (~Issued(rid) /\ decryptionContexts'[rid] # NoContext) =>
                  /\ rid = counterRequest /\ counterRequest' = rid + 1
                  /\ ~decryptionContexts'[rid].processed
                  /\ settledLog'[rid] = <<>>
         ]_vars

\* requests 0 and 1 have been issued and one of them settled; id 2 is unknown
C22_Witness ==
    /\ counterRequest = 2
    /\ \E rid \in RequestIds : decryptionContexts[rid].processed
    /\ decryptionContexts[2] = NoContext
    /\ solutionCallbackOutcome(2, HonestReply(0)[1], "kms") = "StaleVersion"
    /\ accusationCallbackOutcome(2, HonestReply(1)[1], "kms") = "StaleVersion"

\* C23: a context is settled only by its matching callback.  Whatever the
\* delivery carries, handleBatchSolutionCallback rejects a request created
\* by makeAccusation and handleAccusationCallback rejects a request created
\* by requestBatchSolution; the only settlement event ever logged for a
\* request is a DecryptionComplete for a request created by
\* requestBatchSolution.
C23_OnlyMatchingCallbackSettles ==
    \A rid \in RequestIds :
        /\ IsAccusationRequest(rid) =>
               \A r \in Replies(rid) : solutionCallbackOutcome(rid, r[1], r[2]) # "ok"
        /\ IsSolutionRequest(rid) =>
               \A r \in Replies(rid) : accusationCallbackOutcome(rid, r[1], r[2]) # "ok"
        /\ settledLog[rid] # <<>> =>
               /\ Len(settledLog[rid]) = 1
               /\ settledLog[rid][1][1] = "DecryptionComplete"
               /\ IsSolutionRequest(rid)

\* an accusation and a solution request pending on one batch with a
\* submission in it: the solution request is settleable by its own callback
\* and refused by the other, the accusation is refused by the solution
\* callback
C23_Witness ==
    \E r1, r2 \in RequestIds :
        /\ IsAccusationRequest(r1) /\ IsSolutionRequest(r2)
        /\ decryptionContexts[r1].batchId = decryptionContexts[r2].batchId
        /\ AllInitialized(decryptionContexts[r1].batchId)
        /\ solutionCallbackOutcome(r2, HonestReply(r2)[1], "kms") = "ok"
        /\ accusationCallbackOutcome(r2, HonestReply(r2)[1], "kms") = "InvalidState"
        /\ solutionCallbackOutcome(r1, HonestReply(r1)[1], "kms") = "InvalidState"

\* the aggregates of the request's batch no longer hash to the commitment
C24_HashMismatch(rid) ==
    \/ ~AllInitialized(decryptionContexts[rid].batchId)
    \/ hashCiphertexts(rebuildBatchSolution(decryptionContexts[rid].batchId))
           # decryptionContexts[rid].stateHash

\* C24: the settlement checks run in the order processed, version, hash,
\* proof.  For every request id and every delivery to either callback: a
\* processed context fails with AlreadyProcessed, also when its hash no
\* longer matches; an unprocessed one whose version differs fails with
\* StaleVersion, also when its hash does not match; InvalidState is reported
\* only for an unprocessed context of the current version, and there also
\* when the proof is forged; a proof failure is reported only when the hash
\* matches.
C24_SettlementCheckOrder ==
    \A rid \in RequestIds : \A r \in Replies(rid) :
        LET ctx == decryptionContexts[rid]
            sol == solutionCallbackOutcome(rid, r[1], r[2])
            acc == accusationCallbackOutcome(rid, r[1], r[2])
        IN  /\ ctx.processed => sol = "AlreadyProcessed" /\ acc = "AlreadyProcessed"
            /\ (~ctx.processed /\ ctx.modelVersion # modelVersion) =>
                   sol = "StaleVersion" /\ acc = "StaleVersion"
            /\ (sol = "InvalidState" \/ acc = "InvalidState") =>
                   ~ctx.processed /\ ctx.modelVersion = modelVersion
            /\ (~ctx.processed /\ ctx.modelVersion = modelVersion
                   /\ C24_HashMismatch(rid)) => sol = "InvalidState"
            /\ sol \in {"InvalidKMSSignatures", "NoHandleFoundForRequestID"} =>
                   ~C24_HashMismatch(rid)

\* a submission has landed after request r1 was settled and while request r2
\* was pending: neither hash matches any more, r1 reports AlreadyProcessed
\* and r2, under a forged proof, InvalidState; an unknown id reports
\* StaleVersion
C24_Witness ==
    \E r1, r2 \in RequestIds :
        /\ IsSolutionRequest(r1) /\ IsSolutionRequest(r2)
        /\ decryptionContexts[r1].processed /\ C24_HashMismatch(r1)
        /\ solutionCallbackOutcome(r1, HonestReply(r1)[1], "kms") = "AlreadyProcessed"
        /\ ~decryptionContexts[r2].processed /\ C24_HashMismatch(r2)
        /\ solutionCallbackOutcome(r2, HonestReply(r2)[1], "forged") = "InvalidState"
        /\ solutionCallbackOutcome(counterRequest, HonestReply(r2)[1], "kms")
               = "StaleVersion"

\* c is inside its submission cooldown window
C25_InWindow(c) == now < lastSubmissionAt[c] + cooldownSeconds

\* C25: submitEncryptedGuess reports its failures in the precedence Paused,
\* RateLimited, BatchClosed, BatchFull, InvalidState: each is reported
\* exactly when its own condition holds and none of the earlier ones does,
\* and the call is accepted exactly when none holds.
C25_SubmitPrecedence ==
    \A c \in FullAddresses, b \in OneBatch :
        LET full == batches[b].submissionCount >= MAX_BATCH_SIZE IN
        /\ paused => submitOutcome(c, b) = "Paused"
        /\ (~paused /\ C25_InWindow(c)) => submitOutcome(c, b) = "RateLimited"
        /\ (~paused /\ ~C25_InWindow(c) /\ ~batches[b].isOpen) =>
               submitOutcome(c, b) = "BatchClosed"
        /\ (~paused /\ ~C25_InWindow(c) /\ batches[b].isOpen /\ full) =>
               submitOutcome(c, b) = "BatchFull"
        /\ (~paused /\ ~C25_InWindow(c) /\ batches[b].isOpen /\ ~full
               /\ hasSubmitted[b][c]) => submitOutcome(c, b) = "InvalidState"
        /\ (~paused /\ ~C25_InWindow(c) /\ batches[b].isOpen /\ ~full
               /\ ~hasSubmitted[b][c]) => submitOutcome(c, b) = "ok"

\* a full open batch with the cooldown at 0: a repeat submission is refused
\* as BatchFull, not InvalidState
C25_Witness ==
    \E c \in FullAddresses, b \in OneBatch :
        /\ batches[b].isOpen
        /\ batches[b].submissionCount = MAX_BATCH_SIZE
        /\ c \in submitters[b]
        /\ ~paused /\ cooldownSeconds = 0
        /\ submitOutcome(c, b) = "BatchFull"

\* C26: batch ids are allocated in increasing order.  currentBatchId never
\* decreases; a step that changes it adds exactly one and sets isOpen on
\* exactly that new id, whose submissionCount is 0 and whose aggregates are
\* unset, leaving every other batch as it was; id 0 and every id above
\* currentBatchId is closed and empty, a submission or accusation on it
\* that passes the modifiers fails with BatchClosed, and closeBatch on it
\* changes nothing.
C26_BatchIdsIncrease ==
    /\ [](\A b \in SeveralBatchIds :
              (b = 0 \/ b > currentBatchId) =>
                  /\ batches[b] = EmptyBatch
                  /\ \A c \in Addresses :
                         (whenNotPaused /\ checkCooldown(c, lastSubmissionAt)) =>
                             /\ submitOutcome(c, b) = "BatchClosed"
                             /\ accusationOutcome(c, b) = "BatchClosed"
                  /\ ~ENABLED (closeBatch(Deployer, b) /\ batches' # batches))
    /\ [][/\ currentBatchId' >= currentBatchId
          /\ currentBatchId' # currentBatchId =>
                 /\ currentBatchId' = currentBatchId + 1
                 /\ batches[currentBatchId'] = EmptyBatch
                 /\ batches' = [batches EXCEPT ![currentBatchId + 1].isOpen = TRUE]
                 /\ batches'[currentBatchId'].submissionCount = 0
         ]_vars

\* batch 1 was opened and holds a submission, batch 2 is opened next and
\* starts empty while batch 1 is as it was
C26_Witness ==
    /\ currentBatchId = 2
    /\ batches[1].submissionCount > 0
    /\ batches[2] = [EmptyBatch EXCEPT !.isOpen = TRUE]
    /\ batches[0] = EmptyBatch

\* C27: closeBatch(b) by the owner changes nothing when the batch is not
\* open (already closed or never opened), and otherwise can be taken and
\* sets isOpen to false; the step in which a batch goes from open to closed
\* changes nothing else: submissionCount, the aggregates, the dedup flags,
\* the contexts, the ledgers and every other batch are as before.
C27_CloseOnlyCloses ==
    /\ [](\A b \in BatchIds :
              /\ ~batches[b].isOpen =>
                     ~ENABLED (closeBatch(Deployer, b) /\ ~UNCHANGED vars)
              /\ batches[b].isOpen =>
                     ENABLED (closeBatch(Deployer, b) /\ ~batches'[b].isOpen))
    /\ [][\A b \in BatchIds :
              (batches[b].isOpen /\ ~batches'[b].isOpen) =>
                  /\ batches' = [batches EXCEPT ![b].isOpen = FALSE]
                  /\ UNCHANGED <<owner, paused, cooldownSeconds, currentBatchId,
                                 modelVersion, providers, lastSubmissionAt,
                                 lastRequestAt, decryptionContexts, hasSubmitted,
                                 hasRequested, counterRequest, requestedHandles,
                                 requestedLog, settledLog, contributions,
                                 submitters, now>>
         ]_vars

\* a closed batch that kept its submission, its dedup flags and two contexts
C27_Witness ==
    \E b \in BatchIds, c \in Addresses, r1, r2 \in RequestIds :
        /\ b >= 1 /\ ~batches[b].isOpen
        /\ batches[b].submissionCount > 0 /\ AllInitialized(b)
        /\ hasSubmitted[b][c] /\ hasRequested[b][c]
        /\ r1 # r2 /\ Issued(r1) /\ Issued(r2)
        /\ decryptionContexts[r1].batchId = b /\ decryptionContexts[r2].batchId = b

\* k times the word w, modulo 2^32
RECURSIVE C28_Times(_, _)
C28_Times(k, w) == IF k = 0 THEN Word(0) ELSE AddWord(C28_Times(k - 1, w), w)

\* how many of the accepted guesses of batch b are g
C28_Count(b, g) ==
    Cardinality({i \in 1 .. Len(contributions[b]) : contributions[b][i] = g})

\* the field-wise sum of the multiset of accepted guesses of batch b
C28_MultisetSum(b) ==
    [f \in 1 .. 3 |->
        AddWord(C28_Times(C28_Count(b, GuessA), GuessA[f]),
                C28_Times(C28_Count(b, GuessB), GuessB[f]))]

\* C28: the values of a batch's aggregates depend only on the multiset of
\* accepted guesses.  After the first accepted guess the three aggregates
\* decrypt to that guess, and after any number of them, in whatever order
\* they were accepted, to the field-wise sum modulo 2^32 of the multiset.
C28_AggregateOrderIndependent ==
    \A b \in OneBatch :
        batches[b].submissionCount > 0 =>
            /\ Decrypt(rebuildBatchSolution(b)) = C28_MultisetSum(b)
            /\ batches[b].submissionCount = 1 =>
                   Decrypt(rebuildBatchSolution(b)) = contributions[b][1]
            /\ C28_Count(b, GuessA) + C28_Count(b, GuessB) = batches[b].submissionCount

\* the same multiset, accepted in an order that wraps around on the way
C28_Witness ==
    \E b \in OneBatch :
        /\ contributions[b] = <<GuessB, GuessA, GuessA, GuessB>>
        /\ Decrypt(rebuildBatchSolution(b)) = <<Word(0), Word(8), Word(16)>>

\* the context, library record and event a request of c for batch b over
\* the handles cts leaves under the fresh id
C29_Created(b, cts) ==
    LET rid == counterRequest IN
    /\ decryptionContexts[rid] = NoContext
    /\ requestedLog[rid] = <<>>
    /\ decryptionContexts' = [decryptionContexts EXCEPT ![rid] =
           [batchId |-> b, modelVersion |-> modelVersion,
            stateHash |-> hashCiphertexts(cts), processed |-> FALSE]]
    /\ requestedHandles'[rid].cts = cts
    /\ requestedLog' = [requestedLog EXCEPT ![rid] =
           <<"DecryptionRequested", rid, b, hashCiphertexts(cts)>>]

\* C29: every accepted disclosure request creates exactly one context, under
\* the fresh request id, with the requested batch, the current version,
\* processed false and the hash of exactly the handles handed to the oracle
\* (the three aggregates for requestBatchSolution, the comparison result for
\* makeAccusation); the DecryptionRequested event carries the same id, batch
\* and hash, every other context is as before, and the id advances by one.
C29_RequestCreatesContext ==
    [][/\ \A c \in Addresses, b \in BatchIds :
              /\ (~hasRequested[b][c] /\ hasRequested'[b][c]) =>
                     /\ counterRequest' = counterRequest + 1
                     /\ C29_Created(b, rebuildBatchSolution(b))
              /\ (~hasSubmitted[b][c] /\ hasSubmitted'[b][c] /\ batches' = batches) =>
                     /\ counterRequest' = counterRequest + 1
                     /\ \E g \in Guesses : C29_Created(b, <<AccusationResult(batches[b], g)>>)
       /\ counterRequest' # counterRequest =>
              \E c \in Addresses, b \in BatchIds :
                  \/ ~hasRequested[b][c] /\ hasRequested'[b][c]
                  \/ ~hasSubmitted[b][c] /\ hasSubmitted'[b][c] /\ batches' = batches
      ]_vars

\* an accusation and a solution request issued one after the other, each
\* with its own context and event
C29_Witness ==
    \E r1, r2 \in RequestIds :
        /\ IsAccusationRequest(r1) /\ IsSolutionRequest(r2)
        /\ requestedLog[r1] = <<"DecryptionRequested", r1, decryptionContexts[r1].batchId,
                                decryptionContexts[r1].stateHash>>
        /\ requestedLog[r2] = <<"DecryptionRequested", r2, decryptionContexts[r2].batchId,
                                decryptionContexts[r2].stateHash>>
        /\ decryptionContexts[r1].stateHash # decryptionContexts[r2].stateHash

\* C30: settlements of different requests do not interfere.  The step that
\* settles request rid sets that context's processed flag, logs its event
\* and changes nothing else: every other context, every batch, both ledgers
\* and the dedup flags are as before, and every other request that was
\* settleable still is.  (A failed delivery changes nothing at all.)
C30_SettlementsIndependent ==
    [][\A rid \in RequestIds :
           (~decryptionContexts[rid].processed /\ decryptionContexts'[rid].processed) =>
               /\ decryptionContexts' = [decryptionContexts EXCEPT ![rid].processed = TRUE]
               /\ \A other \in RequestIds \ {rid} : settledLog'[other] = settledLog[other]
               /\ UNCHANGED <<owner, paused, cooldownSeconds, currentBatchId,
                              modelVersion, providers, lastSubmissionAt, lastRequestAt,
                              batches, hasSubmitted, hasRequested, counterRequest,
                              requestedHandles, requestedLog, contributions,
                              submitters, now>>
               /\ \A other \in RequestIds \ {rid} :
                      C12_Settleable(other) => C12_Settleable(other)'
      ]_vars

\* two solution requests of different requesters pending together on one
\* batch; the later one has been settled first, the earlier one is pending
\* and still settleable
C30_Witness ==
    \E r1, r2 \in RequestIds :
        /\ r1 < r2 /\ IsSolutionRequest(r1) /\ IsSolutionRequest(r2)
        /\ requestedHandles[r1].requester # requestedHandles[r2].requester
        /\ decryptionContexts[r1].batchId = decryptionContexts[r2].batchId
        /\ decryptionContexts[r2].processed /\ Len(settledLog[r2]) = 1
        /\ ~decryptionContexts[r1].processed /\ C12_Settleable(r1)

\* the step is an accepted makeAccusation of c on b
C31_Accused(c, b) ==
    ~hasSubmitted[b][c] /\ hasSubmitted'[b][c] /\ counterRequest' # counterRequest

\* C31: makeAccusation changes no aggregation state.  An accusation of an
\* identity that has not acted on an open batch and passes the modifiers is
\* accepted whatever the batch's submissionCount, MAX_BATCH_SIZE included;
\* the accepting step leaves every batch (aggregates, submissionCount,
\* isOpen) unchanged, writes only the caller's dedup flag and
\* lastSubmissionAt entry and the new context, and leaves every settleable
\* solution request settleable.
C31_AccusationLeavesAggregates ==
    /\ [](\A c \in FullAddresses, b \in OneBatch :
              (whenNotPaused /\ checkCooldown(c, lastSubmissionAt)
                  /\ batches[b].isOpen /\ ~hasSubmitted[b][c]) =>
                  accusationOutcome(c, b) = "ok")
    /\ [][\A c \in FullAddresses, b \in OneBatch :
              C31_Accused(c, b) =>
                  /\ batches' = batches
                  /\ hasSubmitted' = [hasSubmitted EXCEPT ![b][c] = TRUE]
                  /\ lastSubmissionAt' = [lastSubmissionAt EXCEPT ![c] = now]
                  /\ decryptionContexts' = [decryptionContexts EXCEPT
                         ![counterRequest] = decryptionContexts'[counterRequest]]
                  /\ UNCHANGED <<owner, paused, cooldownSeconds, currentBatchId,
                                 modelVersion, providers, lastRequestAt, hasRequested,
                                 settledLog, contributions, submitters, now>>
                  /\ \A rid \in RequestIds :
                         C12_Settleable(rid) => C12_Settleable(rid)'
         ]_vars

\* the batch is full and open; a solution request was pending when the owner
\* accused against the full batch, and is still settleable
C31_Witness ==
    \E r1, r2 \in RequestIds :
        /\ batches[1].isOpen /\ batches[1].submissionCount = MAX_BATCH_SIZE
        /\ r1 < r2 /\ IsSolutionRequest(r1) /\ IsAccusationRequest(r2)
        /\ requestedHandles[r2].submissionCount = MAX_BATCH_SIZE
        /\ requestedHandles[r1].submissionCount = MAX_BATCH_SIZE
        /\ ~decryptionContexts[r1].processed /\ C12_Settleable(r1)

\* request rid is pending and valid: issued, not processed, the aggregates
\* of its batch set and without a submission since it was issued
C32_ValidPending(rid) ==
    /\ Issued(rid) /\ ~decryptionContexts[rid].processed
    /\ AllInitialized(decryptionContexts[rid].batchId)
    /\ ~SubmissionSince(rid)

\* C32: settlement is not gated by the pause flag or by a role.  While
\* paused, the delivery of the oracle's reply for a valid pending request by
\* any identity settles it: handleBatchSolutionCallback for a request
\* created by requestBatchSolution, handleAccusationCallback for one created
\* by makeAccusation.
C32_SettlementNotGated ==
    \A rid \in RequestIds, c \in Relayers :
        (paused /\ C32_ValidPending(rid)) =>
            /\ IsSolutionRequest(rid) =>
                   ENABLED (/\ handleBatchSolutionCallback(c, rid, HonestReply(rid)[1],
                                                           HonestReply(rid)[2])
                            /\ decryptionContexts'[rid].processed)
            /\ IsAccusationRequest(rid) =>
                   ENABLED (/\ handleAccusationCallback(c, rid, HonestReply(rid)[1],
                                                        HonestReply(rid)[2])
                            /\ decryptionContexts'[rid].processed)

\* C33: the dedup flags are monotone.  No step clears hasSubmitted[b][c] or
\* hasRequested[b][c]; so an identity that has requested the solution of b
\* is refused every further requestBatchSolution for b, with InvalidState
\* when the call passes the modifiers, also when its request has been
\* invalidated by a later submission and can no longer be settled.
C33_DedupFlagsMonotone ==
    /\ [](\A b \in BatchIds, c \in Addresses :
              hasRequested[b][c] =>
                  /\ requestOutcome(c, b) # "ok"
                  /\ (whenNotPaused /\ checkCooldown(c, lastRequestAt)) =>
                         requestOutcome(c, b) = "InvalidState")
    /\ [][\A b \in BatchIds, c \in Addresses :
              /\ hasSubmitted[b][c] => hasSubmitted'[b][c]
              /\ hasRequested[b][c] => hasRequested'[b][c]
         ]_vars

\* c's solution request was invalidated by a later submission: it can no
\* longer be settled, and c, off cooldown again, is refused a new request
C33_Witness ==
    \E rid \in RequestIds, c \in Addresses :
        LET b == decryptionContexts[rid].batchId IN
        /\ IsSolutionRequest(rid) /\ requestedHandles[rid].requester = c
        /\ ~decryptionContexts[rid].processed /\ SubmissionSince(rid)
        /\ solutionCallbackOutcome(rid, HonestReply(rid)[1], "kms") = "InvalidState"
        /\ hasRequested[b][c] /\ hasSubmitted[b][c]
        /\ requestOutcome(c, b) = "InvalidState"

====
